---- MODULE Spec2Model ----
(***************************************************************************)
(* msal-browser PopupHandler: launching a popup window for an              *)
(* authorization request (initiateAuthRequest) and monitoring it for a     *)
(* response hash (monitorPopupForHash).                                    *)
(*                                                                         *)
(* Every session s is one caller using one popup window: at most one call  *)
(* of initiateAuthRequest and one call of monitorPopupForHash.  A timer    *)
(* callback runs to completion (JavaScript event loop), so one callback    *)
(* is one action and sees one snapshot of the window.                      *)
(*                                                                         *)
(* Strings the code inspects are modelled by their content: a URL is a     *)
(* sequence of characters, a hash is a sequence of <<key, value>>          *)
(* parameters.  Milliseconds are scaled (POLL_INTERVAL_MS == 2).           *)
(***************************************************************************)
EXTENDS Integers, Sequences, FiniteSets, TLC

\* ---------------------------------------------------------------- bounds
MaxTimeout == 6

MaxPollInterval == 4

Sessions == {1, 2}
Timeouts == 1..MaxTimeout

\* ------------------------------------------------------------- constants
POLL_INTERVAL_MS == 2
DEFAULT_POPUP_TIMEOUT_MS == 3
INTERACTION_IN_PROGRESS_VALUE == "interaction_in_progress"
NoStatus == "unset"

\* the largest count the tick counter is followed to on ticks that cannot
\* read the hash (those ticks could otherwise count without end)
MaxTickCount == (MaxTimeout \div POLL_INTERVAL_MS) + 1

\* ---------------------------------------------------------------- inputs
Urls == { <<>>, <<" ">>, <<" ", " ">>, <<"h">>, <<" ", "h">> }
Hashes == { <<>>,
            << <<"foo", "bar">> >>,
            << <<"code", "abc">> >>,
            << <<"error", "denied">> >>,
            << <<"foo", "bar">>, <<"state", "xyz">> >> }
Origins == {"cross", "same"}

PopupName(s) == <<"msal", s>>

VARIABLES
    interactionStatus,  \* temporary cache entry INTERACTION_STATUS_KEY
    launch,             \* per session: the call of initiateAuthRequest
    popup,              \* per session: the popup window
    mon                 \* per session: the call of monitorPopupForHash

vars == <<interactionStatus, launch, popup, mon>>

\* --------------------------------------------------------- pure helpers

\* StringUtils.isEmpty: the URL is empty or blank
isEmpty(str) == \A i \in 1..Len(str) : str[i] = " "

\* UrlString.hashContainsKnownProperties: the hash has a parameter that is
\* a known authorization-result marker
KnownProperties == {"code", "error_description", "error", "state"}
hashContainsKnownProperties(hash) ==
    \E i \in 1..Len(hash) : hash[i][1] \in KnownProperties

ExceedsMaxTicks_OffByOne(ticks, timeout) ==
    ticks * POLL_INTERVAL_MS >= timeout

\* a variant that floors upwards
ExceedsMaxTicksAt_Ceiling(ticks, timeout, pollInterval) ==
    ticks > (timeout + pollInterval - 1) \div pollInterval

\* ticks > maxTicks with maxTicks = timeout / pollInterval, a division that
\* is not floored: compared exactly, by cross-multiplication
ExceedsMaxTicksAt(ticks, timeout, pollInterval) ==
    ticks * pollInterval > timeout

\* ticks > maxTicks as the callback evaluates it
ExceedsMaxTicks(ticks, timeout) ==
    ExceedsMaxTicksAt(ticks, timeout, POLL_INTERVAL_MS)

\* a window before it is opened
NoPopup ==
    [opened |-> FALSE, reused |-> FALSE, url |-> <<>>, name |-> <<>>,
     closed |-> FALSE, closedBy |-> "nobody", closeCalls |-> 0,
     origin |-> "cross", hash |-> <<>>]

\* PopupUtils.openPopup: opens a window for the URL under the name, or
\* navigates the supplied one
openPopup(p, urlNavigate, popupName, given) ==
    [p EXCEPT !.opened = TRUE, !.reused = given, !.url = urlNavigate,
              !.name = popupName, !.origin = "cross", !.hash = <<>>]

\* PopupUtils.cleanPopup(popupWindow?): closes the window when it is
\* supplied and still open
cleanPopup(p, withWindow) ==
    IF withWindow
    THEN [p EXCEPT !.closed = TRUE,
                   !.closedBy = IF p.closed THEN p.closedBy ELSE "cleanPopup",
                   !.closeCalls = p.closeCalls + 1]
    ELSE p

\* a call of monitorPopupForHash before it is made
NoMonitor ==
    [gate |-> "none", intervalId |-> "none", timeout |-> 1, ticks |-> 0,
     result |-> "none", value |-> <<>>,
     settleCalls |-> 0, cleanupCalls |-> 0, warnings |-> 0,
     lastTick |-> <<>>]

\* ------------------------------------------- one tick of the poll timer

\* the branches of the interval callback: the statements it executes, in
\* order, for the window p and the monitor m it finds, given the statements
\* of its three terminal branches
TickBranches(p, m, onClosed, onKnownHash, onTimeout) ==
    IF p.closed
    THEN onClosed
    ELSE <<"ticks++">> \o
         (IF p.origin # "same"
          THEN <<"read hash throws">>
          ELSE <<"read hash">> \o
               (IF hashContainsKnownProperties(p.hash)
                THEN onKnownHash
                ELSE IF ExceedsMaxTicks(m.ticks + 1, m.timeout)
                THEN onTimeout
                ELSE <<>>))

OnClosed == <<"cleanPopup()", "clearInterval", "reject(UserCancelled)">>
OnKnownHash ==
    <<"cleanPopup(popupWindow)", "clearInterval", "resolve(contentHash)">>
OnTimeout ==
    <<"cleanPopup(popupWindow)", "clearInterval",
      "reject(MonitorPopupTimeout)">>

\* variants of TickSteps with one slip each
TickSteps_KeepsTimer(p, m) ==
    TickBranches(p, m, <<"cleanPopup()", "reject(UserCancelled)">>,
                 OnKnownHash, OnTimeout)
TickSteps_SuccessKeepsWindow(p, m) ==
    TickBranches(p, m, OnClosed,
                 <<"cleanPopup()", "clearInterval", "resolve(contentHash)">>,
                 OnTimeout)
TickSteps_TimeoutKeepsWindow(p, m) ==
    TickBranches(p, m, OnClosed, OnKnownHash,
                 <<"cleanPopup()", "clearInterval",
                   "reject(MonitorPopupTimeout)">>)
TickSteps_ClosedNoReject(p, m) ==
    TickBranches(p, m, <<"cleanPopup()", "clearInterval">>,
                 OnKnownHash, OnTimeout)
TickSteps_SettleBeforeCleanup(p, m) ==
    TickBranches(p, m, OnClosed, OnKnownHash,
                 <<"clearInterval", "reject(MonitorPopupTimeout)",
                   "cleanPopup(popupWindow)">>)
TickSteps_HashFirst(p, m) ==
    IF p.origin = "same" /\ hashContainsKnownProperties(p.hash)
    THEN <<"ticks++", "read hash">> \o OnKnownHash
    ELSE TickBranches(p, m, OnClosed, OnKnownHash, OnTimeout)

TickSteps_ClearAfterSettle(p, m) ==
    TickBranches(p, m, OnClosed,
                 <<"cleanPopup(popupWindow)", "resolve(contentHash)",
                   "clearInterval">>,
                 OnTimeout)
TickSteps_TimeoutFirst(p, m) ==
    IF ~p.closed /\ p.origin = "same"
          /\ ExceedsMaxTicks(m.ticks + 1, m.timeout)
    THEN <<"ticks++", "read hash">> \o OnTimeout
    ELSE TickBranches(p, m, OnClosed, OnKnownHash, OnTimeout)
TickSteps_ReadBeforeCount(p, m) ==
    IF ~p.closed /\ p.origin # "same"
    THEN <<"read hash throws">>
    ELSE TickBranches(p, m, OnClosed, OnKnownHash, OnTimeout)
TickSteps_CleanEveryTick(p, m) ==
    LET steps == TickBranches(p, m, OnClosed, OnKnownHash, OnTimeout)
    IN IF steps = <<"ticks++", "read hash">>
       THEN steps \o <<"cleanPopup(popupWindow)">>
       ELSE steps

\* the statements one evaluation of the interval callback executes
TickSteps(p, m) == TickBranches(p, m, OnClosed, OnKnownHash, OnTimeout)

\* resolve/reject of the promise: only the first call settles it
Settle(m, outcome, val) ==
    [m EXCEPT !.settleCalls = m.settleCalls + 1,
              !.result = IF m.result = "pending" THEN outcome ELSE m.result,
              !.value = IF m.result = "pending" THEN val ELSE m.value]

\* the effect of one statement on the window and the monitor
ApplyStep(st, step) ==
    CASE step = "ticks++" ->
            [st EXCEPT !.m.ticks = st.m.ticks + 1]
      [] step = "read hash" ->
            [st EXCEPT !.contentHash = st.p.hash]
      [] step = "cleanPopup()" ->
            [st EXCEPT !.p = cleanPopup(st.p, FALSE),
                       !.m.cleanupCalls = st.m.cleanupCalls + 1]
      [] step = "cleanPopup(popupWindow)" ->
            [st EXCEPT !.p = cleanPopup(st.p, TRUE),
                       !.m.cleanupCalls = st.m.cleanupCalls + 1]
      [] step = "clearInterval" ->
            [st EXCEPT !.m.intervalId = "cleared"]
      [] step = "resolve(contentHash)" ->
            [st EXCEPT !.m = Settle(st.m, "Success", st.contentHash)]
      [] step = "reject(UserCancelled)" ->
            [st EXCEPT !.m = Settle(st.m, "Cancelled", <<>>)]
      [] step = "reject(MonitorPopupTimeout)" ->
            [st EXCEPT !.m = Settle(st.m, "TimedOut", <<>>)]
      [] OTHER -> st

RECURSIVE RunSteps(_, _)
RunSteps(st, steps) ==
    IF steps = <<>> THEN st
    ELSE RunSteps(ApplyStep(st, Head(steps)), Tail(steps))

\* ------------------------------------------------------------------ Init
Init ==
    /\ interactionStatus = NoStatus
    /\ launch = [s \in Sessions |->
                    [status |-> "none", requestUrl |-> <<>>, steps |-> <<>>]]
    /\ popup = [s \in Sessions |-> NoPopup]
    /\ mon = [s \in Sessions |-> NoMonitor]

\* --------------------------------------------------------------- actions

\* variants of initiateAuthRequest with one slip each
initiateAuthRequest_StatusFirst(s, requestUrl, given) ==
    /\ launch[s].status = "none"
    /\ interactionStatus' = INTERACTION_IN_PROGRESS_VALUE
    /\ IF ~isEmpty(requestUrl)
       THEN /\ popup' = [popup EXCEPT
                   ![s] = openPopup(popup[s], requestUrl, PopupName(s), given)]
            /\ launch' = [launch EXCEPT
                   ![s] = [status |-> "returned", requestUrl |-> requestUrl,
                           steps |-> <<"setTemporaryCache", "openPopup">>]]
       ELSE /\ launch' = [launch EXCEPT
                   ![s] = [status |-> "threw", requestUrl |-> requestUrl,
                           steps |-> <<"setTemporaryCache",
                                       "throw EmptyNavigationUri">>]]
            /\ UNCHANGED popup
    /\ UNCHANGED mon
initiateAuthRequest_NoStatus(s, requestUrl, given) ==
    /\ launch[s].status = "none"
    /\ IF ~isEmpty(requestUrl)
       THEN /\ popup' = [popup EXCEPT
                   ![s] = openPopup(popup[s], requestUrl, PopupName(s), given)]
            /\ launch' = [launch EXCEPT
                   ![s] = [status |-> "returned", requestUrl |-> requestUrl,
                           steps |-> <<"openPopup">>]]
       ELSE /\ launch' = [launch EXCEPT
                   ![s] = [status |-> "threw", requestUrl |-> requestUrl,
                           steps |-> <<"throw EmptyNavigationUri">>]]
            /\ UNCHANGED popup
    /\ UNCHANGED <<interactionStatus, mon>>

\* PopupHandler.initiateAuthRequest(requestUrl, {popupName, popup}); given
\* tells whether params.popup holds a window
initiateAuthRequest(s, requestUrl, given) ==
    /\ launch[s].status = "none"
    /\ IF ~isEmpty(requestUrl)
       THEN /\ interactionStatus' = INTERACTION_IN_PROGRESS_VALUE
            /\ popup' = [popup EXCEPT
                   ![s] = openPopup(popup[s], requestUrl, PopupName(s), given)]
            /\ launch' = [launch EXCEPT
                   ![s] = [status |-> "returned", requestUrl |-> requestUrl,
                           steps |-> <<"setTemporaryCache", "openPopup">>]]
       ELSE /\ launch' = [launch EXCEPT
                   ![s] = [status |-> "threw", requestUrl |-> requestUrl,
                           steps |-> <<"throw EmptyNavigationUri">>]]
            /\ UNCHANGED <<interactionStatus, popup>>
    /\ UNCHANGED mon

\* variants of monitorPopupForHash with one slip each
monitorPopupForHash_WarnAtDefault(s, timeout) ==
    /\ launch[s].status = "returned"
    /\ mon[s].gate = "none"
    /\ mon' = [mon EXCEPT ![s] =
           [NoMonitor EXCEPT
               !.gate = "pending", !.timeout = timeout, !.result = "pending",
               !.warnings = IF timeout <= DEFAULT_POPUP_TIMEOUT_MS
                            THEN 1 ELSE 0]]
    /\ UNCHANGED <<interactionStatus, launch, popup>>
monitorPopupForHash_TimerAtOnce(s, timeout) ==
    /\ launch[s].status = "returned"
    /\ mon[s].gate = "none"
    /\ mon' = [mon EXCEPT ![s] =
           [NoMonitor EXCEPT
               !.gate = "pending", !.timeout = timeout, !.result = "pending",
               !.intervalId = "active",
               !.warnings = IF timeout < DEFAULT_POPUP_TIMEOUT_MS
                            THEN 1 ELSE 0]]
    /\ UNCHANGED <<interactionStatus, launch, popup>>

\* PopupHandler.monitorPopupForHash(popupWindow, timeout), up to the call
\* of monitorPopupForSameOrigin
monitorPopupForHash(s, timeout) ==
    /\ launch[s].status = "returned"
    /\ mon[s].gate = "none"
    /\ mon' = [mon EXCEPT ![s] =
           [NoMonitor EXCEPT
               !.gate = "pending", !.timeout = timeout, !.result = "pending",
               !.warnings = IF timeout < DEFAULT_POPUP_TIMEOUT_MS
                            THEN 1 ELSE 0]]
    /\ UNCHANGED <<interactionStatus, launch, popup>>

\* monitorPopupForSameOrigin fulfils once the window's location is
\* readable; the then-callback starts the poll timer
GateFulfil(s) ==
    /\ mon[s].gate = "pending"
    /\ popup[s].origin = "same"
    /\ mon' = [mon EXCEPT ![s].gate = "fulfilled",
                          ![s].intervalId = "active"]
    /\ UNCHANGED <<interactionStatus, launch, popup>>

\* a variant that hands the gate's failure on to the caller
OnGateRejected_Propagates(m) == Settle(m, "Cancelled", <<>>)

\* what monitorPopupForHash does with a failure of the gate: then() is
\* given a fulfilment callback only, so nothing
OnGateRejected(m) == m

\* monitorPopupForSameOrigin ends in failure: the then-callback never runs
\* and nothing handles the rejection
GateReject(s) ==
    /\ mon[s].gate = "pending"
    /\ popup[s].closed
    /\ mon' = [mon EXCEPT ![s] = [OnGateRejected(mon[s]) EXCEPT
                                     !.gate = "rejected"]]
    /\ UNCHANGED <<interactionStatus, launch, popup>>

\* a variant of Tick whose counter is one variable shared by the sessions
Tick_SharedTicks(s) ==
    /\ mon[s].intervalId = "active"
    /\ popup[s].closed \/ popup[s].origin = "same"
          \/ mon[s].ticks < MaxTickCount
    /\ LET steps == TickSteps(popup[s], mon[s])
           st == RunSteps([p |-> popup[s], m |-> mon[s],
                           contentHash |-> <<>>], steps)
       IN /\ popup' = [popup EXCEPT ![s] = st.p]
          /\ mon' = [t \in Sessions |->
                 IF t = s THEN [st.m EXCEPT !.lastTick = steps]
                 ELSE IF mon[t].intervalId = "active"
                      THEN [mon[t] EXCEPT !.ticks = st.m.ticks]
                      ELSE mon[t]]
    /\ UNCHANGED <<interactionStatus, launch>>

\* one firing of the setInterval callback
Tick(s) ==
    /\ mon[s].intervalId = "active"
    /\ popup[s].closed \/ popup[s].origin = "same"
          \/ mon[s].ticks < MaxTickCount
    /\ LET steps == TickSteps(popup[s], mon[s])
           st == RunSteps([p |-> popup[s], m |-> mon[s],
                           contentHash |-> <<>>], steps)
       IN /\ popup' = [popup EXCEPT ![s] = st.p]
          /\ mon' = [mon EXCEPT ![s] = [st.m EXCEPT !.lastTick = steps]]
    /\ UNCHANGED <<interactionStatus, launch>>

\* the user closes the window
UserCloses(s) ==
    /\ popup[s].opened
    /\ ~popup[s].closed
    /\ popup' = [popup EXCEPT ![s].closed = TRUE, ![s].closedBy = "user"]
    /\ UNCHANGED <<interactionStatus, launch, mon>>

\* the window navigates: to the identity provider (cross-origin) or back
\* to the application with some hash
Navigate(s, origin, hash) ==
    /\ popup[s].opened
    /\ ~popup[s].closed
    /\ <<origin, hash>> # <<popup[s].origin, popup[s].hash>>
    /\ popup' = [popup EXCEPT ![s].origin = origin, ![s].hash = hash]
    /\ UNCHANGED <<interactionStatus, launch, mon>>

\* the caller that owns the flow removes the interaction status
CallerClearsStatus ==
    /\ interactionStatus = INTERACTION_IN_PROGRESS_VALUE
    /\ interactionStatus' = NoStatus
    /\ UNCHANGED <<launch, popup, mon>>

SessionNext(s) ==
    \/ \E u \in Urls, given \in BOOLEAN : initiateAuthRequest(s, u, given)
    \/ \E t \in Timeouts : monitorPopupForHash(s, t)
    \/ GateFulfil(s)
    \/ GateReject(s)
    \/ Tick(s)
    \/ UserCloses(s)
    \/ \E o \in Origins, h \in Hashes : Navigate(s, o, h)

\* one caller, one window
Next ==
    \/ SessionNext(1)
    \/ CallerClearsStatus

Spec == Init /\ [][Next]_vars

\* timers fire: the gate's poll and the interval callback are not starved
Fairness ==
    \A s \in Sessions : WF_vars(GateFulfil(s)) /\ WF_vars(Tick(s))

FairSpec == Spec /\ Fairness

\* two callers, each with its own window, their steps interleaved; the
\* inputs are the two ends of each input set
PairUrls == { <<"h">> }
PairTimeouts == {1, MaxTimeout}
PairHashes == { <<>>, << <<"code", "abc">> >> }

PairSessionNext(s) ==
    \/ \E u \in PairUrls : initiateAuthRequest(s, u, FALSE)
    \/ \E t \in PairTimeouts : monitorPopupForHash(s, t)
    \/ GateFulfil(s)
    \/ GateReject(s)
    \/ Tick(s)
    \/ UserCloses(s)
    \/ \E o \in Origins, h \in PairHashes : Navigate(s, o, h)

PairNext == \E s \in Sessions : PairSessionNext(s)

PairSpec == Init /\ [][PairNext]_vars

\* ---------------------------------------------------------------- claims

Terminal == {"Success", "Cancelled", "TimedOut"}
Cleanups == {"cleanPopup()", "cleanPopup(popupWindow)"}
Settles == {"resolve(contentHash)", "reject(UserCancelled)",
            "reject(MonitorPopupTimeout)"}
StepSet(steps) == {steps[i] : i \in 1..Len(steps)}

\* this step is an evaluation of the interval callback of session s
TickOf(s) == mon[s].intervalId = "active" /\ mon'[s] # mon[s]

\* C1: in every call of monitorPopupForHash resolve/reject is called at most
\* once over the whole call, so at most one of Success, Cancelled and
\* TimedOut is produced, whatever the window does; the result is terminal
\* exactly when that one call has been made.
C1_AtMostOneOutcome ==
    \A s \in Sessions :
        /\ mon[s].settleCalls <= 1
        /\ (mon[s].settleCalls = 1) <=> (mon[s].result \in Terminal)

\* a window that was closed while it carried a recognized hash (two terminal
\* conditions at once) and whose session settled once
C1_Witness ==
    \E s \in Sessions :
        /\ mon[s].result = "Cancelled"
        /\ mon[s].settleCalls = 1
        /\ popup[s].origin = "same"
        /\ hashContainsKnownProperties(popup[s].hash)

\* C2: a window the user closes while the result is pending leads to the
\* result rejecting with UserCancelledError, also when it is closed while
\* the monitor waits at the same-origin gate; and a Cancelled session
\* called cleanPopup without the window, which was not closed again.
C2_UserCloseRejectsCancelled ==
    /\ \A s \in Sessions :
          (popup[s].closedBy = "user" /\ mon[s].result = "pending")
              ~> (mon[s].result = "Cancelled")
    /\ [](\A s \in Sessions :
              mon[s].result = "Cancelled" =>
                  /\ popup[s].closeCalls = 0
                  /\ "cleanPopup()" \in StepSet(mon[s].lastTick))

\* C3: on a tick within the tick budget that finds the window open and its
\* hash readable and recognized, the result resolves Success with exactly
\* the hash the window had on that tick, and cleanPopup(popupWindow) closes
\* the window.
C3_SuccessOnKnownHash ==
    [][\A s \in Sessions :
          ( /\ TickOf(s)
            /\ ~popup[s].closed
            /\ popup[s].origin = "same"
            /\ hashContainsKnownProperties(popup[s].hash)
            /\ (mon[s].ticks + 1) * POLL_INTERVAL_MS <= mon[s].timeout )
          => /\ mon'[s].result = "Success"
             /\ mon'[s].value = popup[s].hash
             /\ "cleanPopup(popupWindow)" \in StepSet(mon'[s].lastTick)
             /\ popup'[s].closed
             /\ popup'[s].closedBy = "cleanPopup"
             /\ popup'[s].closeCalls = 1]_vars

\* a session that resolved Success within its budget with a non-empty hash
\* and whose window cleanPopup closed
C3_Witness ==
    \E s \in Sessions :
        /\ mon[s].result = "Success"
        /\ mon[s].value = << <<"foo", "bar">>, <<"state", "xyz">> >>
        /\ mon[s].ticks * POLL_INTERVAL_MS <= mon[s].timeout
        /\ popup[s].closedBy = "cleanPopup"

C5_EverySessionSettles ==
    \A s \in Sessions :
        (mon[s].result = "pending")
            ~> (mon[s].result \in Terminal \/ popup[s].closedBy = "user")

\* C5 as amended: under fair firing of the timers a session whose gate was
\* fulfilled eventually settles its result, unless a tick finds the window
\* open and unreadable again and again; and a session whose gate was not
\* fulfilled has not settled.
C5_SettlesOncePolling ==
    /\ \A s \in Sessions :
          \/ <>(mon[s].result \in Terminal)
          \/ [](mon[s].gate # "fulfilled")
          \/ []<>( /\ mon[s].intervalId = "active"
                   /\ ~popup[s].closed
                   /\ popup[s].origin # "same" )
    /\ [](\A s \in Sessions :
              mon[s].gate # "fulfilled" => mon[s].result \notin Terminal)

\* a session that passed the gate, met an unreadable window on a tick and
\* settled on a later one
C5_Witness ==
    \E s \in Sessions :
        /\ mon[s].gate = "fulfilled"
        /\ mon[s].result = "TimedOut"
        /\ (mon[s].ticks - 1) * POLL_INTERVAL_MS > mon[s].timeout

\* C6: initiateAuthRequest throws the empty-navigation-URL error exactly
\* for the empty/blank URLs, and that call changes nothing else: the
\* interaction status, the windows and the monitors stay as they were.
C6_EmptyUrlThrows ==
    /\ [](\A s \in Sessions :
             /\ launch[s].status # "none" =>
                   ((launch[s].status = "threw")
                        <=> isEmpty(launch[s].requestUrl))
             /\ launch[s].status = "threw" =>
                   /\ ~popup[s].opened
                   /\ mon[s] = NoMonitor
                   /\ launch[s].steps = <<"throw EmptyNavigationUri">>)
    /\ [][\A s \in Sessions :
             (launch[s].status = "none" /\ launch'[s].status = "threw")
             => /\ interactionStatus' = interactionStatus
                /\ popup' = popup
                /\ mon' = mon]_vars

\* a call with a blank URL that threw and left the interaction status unset
C6_Witness ==
    \E s \in Sessions :
        /\ launch[s].status = "threw"
        /\ launch[s].requestUrl = <<" ", " ">>
        /\ interactionStatus = NoStatus
        /\ ~popup[s].opened

\* C7: for every non-empty URL initiateAuthRequest sets the interaction
\* status to in-progress, then opens (or reuses) the window for that URL
\* and name and returns it; afterwards only the caller that owns the flow
\* takes the status away from in-progress.
C7_StatusInProgress ==
    /\ [](\A s \in Sessions :
             (launch[s].status # "none" /\ ~isEmpty(launch[s].requestUrl))
             => /\ launch[s].status = "returned"
                /\ popup[s].opened
                /\ popup[s].url = launch[s].requestUrl
                /\ popup[s].name = PopupName(s)
                /\ launch[s].steps = <<"setTemporaryCache", "openPopup">>)
    /\ [][\A s \in Sessions :
             (launch[s].status = "none" /\ launch'[s].status = "returned")
             => /\ interactionStatus' = INTERACTION_IN_PROGRESS_VALUE
                /\ ~popup'[s].closed]_vars
    /\ [][(interactionStatus = INTERACTION_IN_PROGRESS_VALUE
              /\ interactionStatus' # INTERACTION_IN_PROGRESS_VALUE)
          => CallerClearsStatus]_vars

\* a reused window whose session has timed out, the status still in progress
C7_Witness ==
    \E s \in Sessions :
        /\ launch[s].status = "returned"
        /\ popup[s].reused
        /\ mon[s].result = "TimedOut"
        /\ interactionStatus = INTERACTION_IN_PROGRESS_VALUE

\* C8: a tick that finds the window closed and carrying a readable
\* recognized hash rejects Cancelled; it neither counts nor reads the hash.
C8_ClosedBeforeHash ==
    [][\A s \in Sessions :
          ( /\ TickOf(s)
            /\ popup[s].closed
            /\ popup[s].origin = "same"
            /\ hashContainsKnownProperties(popup[s].hash) )
          => /\ mon'[s].result = "Cancelled"
             /\ mon'[s].value = <<>>
             /\ mon'[s].ticks = mon[s].ticks
             /\ "read hash" \notin StepSet(mon'[s].lastTick)]_vars

\* a Cancelled session whose window was closed by the user with an error
\* response in its hash
C8_Witness ==
    \E s \in Sessions :
        /\ mon[s].result = "Cancelled"
        /\ popup[s].closedBy = "user"
        /\ popup[s].origin = "same"
        /\ popup[s].hash = << <<"error", "denied">> >>
        /\ mon[s].lastTick = OnClosed

\* C9: cleanPopup has been called once by a session that has settled and
\* not at all by one that has not, and on the terminal tick it comes
\* before resolve/reject.
C9_CleanupOnceBeforeSettle ==
    \A s \in Sessions :
        /\ mon[s].cleanupCalls = IF mon[s].result \in Terminal THEN 1 ELSE 0
        /\ mon[s].result \in Terminal =>
              \E i, j \in 1..Len(mon[s].lastTick) :
                  /\ i < j
                  /\ mon[s].lastTick[i] \in Cleanups
                  /\ mon[s].lastTick[j] \in Settles

\* a session that timed out, with its one cleanPopup call
C9_Witness ==
    \E s \in Sessions :
        /\ mon[s].result = "TimedOut"
        /\ mon[s].cleanupCalls = 1
        /\ mon[s].lastTick = <<"ticks++", "read hash">> \o OnTimeout

\* C10: with two sessions interleaved, a step that changes one session's
\* monitor (counter, timer, result) leaves the other session's monitor and
\* window alone, and each outcome is the one its own window and budget
\* give: Success carries the own window's hash, TimedOut has the own count
\* above the own maxTicks, Cancelled has the own window closed by the user.
C10_SessionsIndependent ==
    /\ [][\A s, t \in Sessions :
             (s # t /\ mon'[s] # mon[s])
             => (mon'[t] = mon[t] /\ popup'[t] = popup[t])]_vars
    /\ [](\A s \in Sessions :
             /\ mon[s].result = "Success" =>
                   /\ mon[s].value = popup[s].hash
                   /\ hashContainsKnownProperties(popup[s].hash)
                   /\ popup[s].closedBy = "cleanPopup"
             /\ mon[s].result = "TimedOut" =>
                   /\ mon[s].ticks * POLL_INTERVAL_MS > mon[s].timeout
                   /\ ~hashContainsKnownProperties(popup[s].hash)
                   /\ popup[s].closedBy = "cleanPopup"
             /\ mon[s].result = "Cancelled" => popup[s].closedBy = "user")

\* two sessions that ended differently, at different counts
C10_Witness ==
    /\ mon[1].result = "Success"
    /\ mon[1].ticks = 1
    /\ mon[1].timeout = MaxTimeout
    /\ mon[2].result = "TimedOut"
    /\ mon[2].ticks = 1
    /\ mon[2].timeout = 1

\* C11: a call of monitorPopupForHash has emitted the warning once when
\* its timeout is below DEFAULT_POPUP_TIMEOUT_MS and not at all otherwise,
\* and no later step emits another; warned or not, a tick's outcome is
\* given by the window and the count alone.
C11_WarningOnceNoEffect ==
    /\ [](\A s \in Sessions :
             mon[s].gate # "none" =>
                 mon[s].warnings =
                     IF mon[s].timeout < DEFAULT_POPUP_TIMEOUT_MS
                     THEN 1 ELSE 0)
    /\ [][\A s \in Sessions :
             mon[s].gate # "none" =>
                 /\ mon'[s].warnings = mon[s].warnings
                 /\ mon'[s].timeout = mon[s].timeout]_vars
    /\ [][\A s \in Sessions :
             TickOf(s) =>
                 mon'[s].result =
                     IF popup[s].closed THEN "Cancelled"
                     ELSE IF popup[s].origin # "same" THEN "pending"
                     ELSE IF hashContainsKnownProperties(popup[s].hash)
                          THEN "Success"
                     ELSE IF (mon[s].ticks + 1) * POLL_INTERVAL_MS
                                 > mon[s].timeout
                          THEN "TimedOut"
                     ELSE "pending"]_vars

\* a warned session that still resolved Success, on its second tick
C11_Witness ==
    \E s \in Sessions :
        /\ mon[s].warnings = 1
        /\ mon[s].timeout = DEFAULT_POPUP_TIMEOUT_MS - 1
        /\ mon[s].result = "Success"
        /\ mon[s].ticks = 2

\* C12: a session that has reached a terminal condition has its interval
\* cleared, the clearing came before resolve/reject in the terminal tick,
\* and no later step changes its monitor or its window (no closed-check,
\* hash read, count or cleanPopup call happens again).
C12_NoTickAfterTerminal ==
    /\ [](\A s \in Sessions :
             mon[s].result \in Terminal =>
                 /\ mon[s].intervalId = "cleared"
                 /\ \E i, j \in 1..Len(mon[s].lastTick) :
                        /\ i < j
                        /\ mon[s].lastTick[i] = "clearInterval"
                        /\ mon[s].lastTick[j] \in Settles)
    /\ [][\A s \in Sessions :
             mon[s].result \in Terminal =>
                 (mon'[s] = mon[s] /\ popup'[s] = popup[s])]_vars

\* a session that resolved Success after two ticks and whose timer is
\* cleared
C12_Witness ==
    \E s \in Sessions :
        /\ mon[s].result = "Success"
        /\ mon[s].intervalId = "cleared"
        /\ mon[s].ticks = 2
        /\ mon[s].lastTick = <<"ticks++", "read hash">> \o OnKnownHash

\* C13: comparing the count with the unfloored timeout / pollInterval is
\* comparing it with floor(timeout / pollInterval), for all positive
\* timeouts and poll intervals (6000 and 2000 among them: not above at 3,
\* above at 4); a tick that reads an unrecognized hash times out exactly
\* when it is tick floor(timeout / POLL_INTERVAL_MS) + 1 or later, TimedOut
\* never comes earlier, and a running timer has a count that high only
\* after a tick that could not read the hash.
C13_FlooredTickBudget ==
    /\ [](/\ \A pollInterval \in 1..MaxPollInterval :
             \A timeout \in 1..(MaxTimeout * MaxPollInterval) :
             \A k \in 0..(MaxTimeout + 1) :
                 ExceedsMaxTicksAt(k, timeout, pollInterval)
                     <=> (k >= (timeout \div pollInterval) + 1)
          /\ ~ExceedsMaxTicksAt(3, 6000, 2000)
          /\ ExceedsMaxTicksAt(4, 6000, 2000)
          /\ \A s \in Sessions :
                /\ mon[s].result = "TimedOut" =>
                      mon[s].ticks >=
                          (mon[s].timeout \div POLL_INTERVAL_MS) + 1
                /\ ( /\ mon[s].intervalId = "active"
                     /\ mon[s].ticks >=
                            (mon[s].timeout \div POLL_INTERVAL_MS) + 1 )
                   => mon[s].lastTick = <<"ticks++", "read hash throws">>)
    /\ [][\A s \in Sessions :
             ( /\ TickOf(s)
               /\ ~popup[s].closed
               /\ popup[s].origin = "same"
               /\ ~hashContainsKnownProperties(popup[s].hash) )
             => ( (mon'[s].result = "TimedOut")
                    <=> (mon[s].ticks + 1 >=
                            (mon[s].timeout \div POLL_INTERVAL_MS) + 1) )]_vars

\* the scenario, scaled: timeout 6 with poll interval 2 timed out on tick 4
C13_Witness ==
    \E s \in Sessions :
        /\ mon[s].timeout = 3 * POLL_INTERVAL_MS
        /\ mon[s].result = "TimedOut"
        /\ mon[s].ticks = 4
        /\ mon[s].lastTick = <<"ticks++", "read hash">> \o OnTimeout

\* C14: until the same-origin gate is fulfilled the count is 0, there is
\* no poll timer and the result is not TimedOut; while the window is not
\* readable the gate is not fulfilled by any step, whatever the timeout.
C14_ClockStartsAfterGate ==
    /\ [](\A s \in Sessions :
             mon[s].gate # "fulfilled" =>
                 /\ mon[s].ticks = 0
                 /\ mon[s].intervalId = "none"
                 /\ mon[s].result # "TimedOut")
    /\ [][\A s \in Sessions :
             (mon[s].gate = "pending" /\ popup[s].origin # "same")
             => mon'[s].gate # "fulfilled"]_vars

\* a window that has moved between cross-origin pages with the smallest
\* timeout, the monitor still at the gate
C14_Witness ==
    \E s \in Sessions :
        /\ mon[s].gate = "pending"
        /\ mon[s].timeout = 1
        /\ popup[s].origin = "cross"
        /\ popup[s].hash = << <<"foo", "bar">> >>
        /\ ~popup[s].closed
        /\ mon[s].ticks = 0

\* C15: a tick that finds the window open with a readable recognized hash
\* resolves Success also when it takes the count above maxTicks; a step
\* that produces TimedOut is a tick that found the window open and read a
\* hash that is not recognized.
C15_HashBeforeTimeout ==
    /\ [][\A s \in Sessions :
             ( /\ TickOf(s)
               /\ ~popup[s].closed
               /\ popup[s].origin = "same"
               /\ hashContainsKnownProperties(popup[s].hash)
               /\ (mon[s].ticks + 1) * POLL_INTERVAL_MS > mon[s].timeout )
             => /\ mon'[s].result = "Success"
                /\ mon'[s].value = popup[s].hash]_vars
    /\ [][\A s \in Sessions :
             (mon[s].result # "TimedOut" /\ mon'[s].result = "TimedOut")
             => /\ TickOf(s)
                /\ ~popup[s].closed
                /\ popup[s].origin = "same"
                /\ ~hashContainsKnownProperties(popup[s].hash)
                /\ "read hash" \in StepSet(mon'[s].lastTick)]_vars

\* a session that resolved Success on a tick whose count was above maxTicks
C15_Witness ==
    \E s \in Sessions :
        /\ mon[s].result = "Success"
        /\ mon[s].ticks * POLL_INTERVAL_MS > mon[s].timeout
        /\ mon[s].value = << <<"code", "abc">> >>

\* C16 as stated: in the terminal tick of a settled session the interval
\* is cleared first, cleanPopup is called next and resolve/reject last.
C16_TimerThenCleanupThenSettle ==
    \A s \in Sessions :
        mon[s].result \in Terminal =>
            \E i, j, k \in 1..Len(mon[s].lastTick) :
                /\ i < j /\ j < k
                /\ mon[s].lastTick[i] = "clearInterval"
                /\ mon[s].lastTick[j] \in Cleanups
                /\ mon[s].lastTick[k] \in Settles

\* C16 as amended: in the terminal tick of a settled session cleanPopup is
\* called first (without the window for Cancelled, with it for Success and
\* TimedOut), the interval is cleared next and resolve/reject comes last.
C16_CleanupThenTimerThenSettle ==
    \A s \in Sessions :
        mon[s].result \in Terminal =>
            \E i, j, k \in 1..Len(mon[s].lastTick) :
                /\ i < j /\ j < k
                /\ mon[s].lastTick[i] =
                       IF mon[s].result = "Cancelled"
                       THEN "cleanPopup()" ELSE "cleanPopup(popupWindow)"
                /\ mon[s].lastTick[j] = "clearInterval"
                /\ mon[s].lastTick[k] \in Settles
                /\ \A n \in 1..Len(mon[s].lastTick) :
                       /\ mon[s].lastTick[n] \in Cleanups => n = i
                       /\ mon[s].lastTick[n] \in Settles => n = k

\* a session cancelled after one counted tick
C16_Witness ==
    \E s \in Sessions :
        /\ mon[s].result = "Cancelled"
        /\ mon[s].ticks = 1
        /\ mon[s].lastTick = OnClosed
        /\ popup[s].closeCalls = 0

\* C17: while the same-origin gate is pending or has failed there is no
\* poll timer, cleanPopup and resolve/reject have not been called and the
\* result is pending; a failed gate changes nothing of the monitor ever
\* after; and the result leaves pending only in a tick of the poll timer.
C17_SettledOnlyInTick ==
    /\ [](\A s \in Sessions :
             mon[s].gate \in {"pending", "rejected"} =>
                 /\ mon[s].intervalId = "none"
                 /\ mon[s].cleanupCalls = 0
                 /\ mon[s].settleCalls = 0
                 /\ mon[s].result = "pending")
    /\ [][\A s \in Sessions :
             mon[s].gate = "rejected" => mon'[s] = mon[s]]_vars
    /\ [][\A s \in Sessions :
             (mon[s].result = "pending" /\ mon'[s].result # "pending")
             => TickOf(s)]_vars

\* a gate that failed on a window the user closed, the result left pending
C17_Witness ==
    \E s \in Sessions :
        /\ mon[s].gate = "rejected"
        /\ popup[s].closedBy = "user"
        /\ mon[s].result = "pending"
        /\ mon[s].intervalId = "none"

C19_QuietTickOnlyCounts ==
    /\ [][\A s \in Sessions :
             ( /\ TickOf(s)
               /\ ~popup[s].closed
               /\ popup[s].origin = "same"
               /\ ~hashContainsKnownProperties(popup[s].hash)
               /\ (mon[s].ticks + 1) * POLL_INTERVAL_MS <= mon[s].timeout )
             => /\ mon'[s] = [mon[s] EXCEPT
                       !.ticks = mon[s].ticks + 1,
                       !.lastTick = <<"ticks++", "read hash">>]
                /\ popup' = popup
                /\ interactionStatus' = interactionStatus
                /\ launch' = launch]_vars
    /\ [][\A s \in Sessions :
             popup'[s].closeCalls # popup[s].closeCalls
             => /\ TickOf(s)
                /\ mon[s].result = "pending"
                /\ mon'[s].result \in {"Success", "TimedOut"}]_vars

\* a running session after three quiet ticks, its window still open
C19_Witness ==
    \E s \in Sessions :
        /\ mon[s].intervalId = "active"
        /\ mon[s].ticks = 3
        /\ mon[s].lastTick = <<"ticks++", "read hash">>
        /\ mon[s].result = "pending"
        /\ ~popup[s].closed
        /\ interactionStatus = INTERACTION_IN_PROGRESS_VALUE

====
